---- MODULE Spec2Model ----
(***************************************************************************)
(* sanic-dantic, sanic_dantic/basic_definition.py: DanticModelObj (the     *)
(* schema bundle) and validate (extract, validate and merge the sections   *)
(* of one request).                                                        *)
(***************************************************************************)
EXTENDS Integers, Sequences, FiniteSets, TLC

VARIABLES
    pc,            \* position: "construct", the steps of validate, "done", "ctor_failed"
    ctor_args,     \* the arguments DanticModelObj.__init__ is called with
    ctor_outcome,  \* "pending", "ok", "ServerError" or "AttributeError"
    dmo,           \* the constructed bundle
    request,       \* the request: headers, match_info, args, form, json
    parsed_args,   \* the local ParsedArgsObj of validate
    body_params,   \* the local body_params of the `all` step
    calls,         \* the schema invocations made so far, in order
    handler_calls, \* the invocations of dmo.error made so far, in order
    outcome,       \* what validate returned or raised
    ctx            \* request.ctx.params

vars == <<pc, ctor_args, ctor_outcome, dmo, request, parsed_args, body_params,
          calls, handler_calls, outcome, ctx>>

----------------------------------------------------------------------------
(* Bounds *)

\* raw numeric values are 1..MaxVal
MaxVal == 2

----------------------------------------------------------------------------
(* Values.  One record shape for every Python value the sections carry.    *)

NoneV == [kind |-> "none", n |-> 0, s |-> "", items |-> <<>>]
IntV(n) == [kind |-> "int", n |-> n, s |-> "", items |-> <<>>]
StrV(s) == [kind |-> "str", n |-> 0, s |-> s, items |-> <<>>]
\* a list of strings (the values of a repeated key)
ListV(val) == [kind |-> "list", n |-> 0, s |-> "",
               items |-> [i \in 1..Len(val) |-> val[i].s]]

EmptyMap == [k \in {} |-> NoneV]

\* dict.update(other) that keeps the values already present
UpdateKeepOld(d, other) ==
    [k \in (DOMAIN d) \cup (DOMAIN other) |->
        IF k \in DOMAIN d THEN d[k] ELSE other[k]]

\* dict.update(other)
Update(d, other) ==
    [k \in (DOMAIN d) \cup (DOMAIN other) |->
        IF k \in DOMAIN other THEN other[k] ELSE d[k]]

\* dict.pop(key) for a key that is present: the dict that is left
Pop(d, key) == [k \in (DOMAIN d) \ {key} |-> d[k]]

\* {key: val[0] if len(val) == 1 else val for key, val in multi.items()}
Flatten(multi) ==
    [k \in DOMAIN multi |->
        IF Len(multi[k]) = 1 THEN multi[k][1] ELSE ListV(multi[k])]

----------------------------------------------------------------------------
(* JSON texts.  json.loads over the texts the model submits.               *)

Numerals == {ToString(n) : n \in 0..(MaxVal + 1)}
NumeralValue(s) == CHOOSE n \in 0..(MaxVal + 1) : ToString(n) = s

JsonKeys == {"a", "b"}
JsonObjects ==
    UNION {[D -> {IntV(n) : n \in 1..MaxVal}] : D \in SUBSET JsonKeys}

RECURSIVE JsonMembers(_, _)
JsonMembers(obj, keys) ==
    IF keys = {} THEN ""
    ELSE LET k == CHOOSE x \in keys : \A y \in keys : x = "a" \/ y # "a"
             rest == keys \ {k}
         IN "\"" \o k \o "\": " \o ToString(obj[k].n)
            \o (IF rest = {} THEN "" ELSE ", ")
            \o JsonMembers(obj, rest)

\* json.dumps(obj) for an object of integers
JsonDumps(obj) == "{" \o JsonMembers(obj, DOMAIN obj) \o "}"

\* json.loads(text): [tag |-> "raises" | "none" | "list" | "scalar" | "dict", d]
Parsed(tag, d) == [tag |-> tag, d |-> d]
JsonLoads(text) ==
    IF \E obj \in JsonObjects : JsonDumps(obj) = text
      THEN Parsed("dict", CHOOSE obj \in JsonObjects : JsonDumps(obj) = text)
    ELSE IF text \in Numerals THEN Parsed("scalar", EmptyMap)
    ELSE IF text = "null" THEN Parsed("none", EmptyMap)
    ELSE IF text = "[1]" THEN Parsed("list", EmptyMap)
    ELSE Parsed("raises", EmptyMap)

----------------------------------------------------------------------------
(* The schema collaborator: a pydantic model of integer fields, each       *)
(* required or Optional with default None; unknown keys are ignored.       *)

Field(name, required) == [name |-> name, required |-> required]
NoModel == [kind |-> "None", fields |-> <<>>]
Model(fields) == [kind |-> "Model", fields |-> fields]
\* a class that does not inherit from BaseModel
NotModel == [kind |-> "NotModel", fields |-> <<>>]
\* a truthy object that is no class at all
NotClass == [kind |-> "NotClass", fields |-> <<>>]

FieldError(name, msg) == [loc |-> <<name>>, msg |-> msg]
NoError == [loc |-> <<>>, msg |-> ""]

\* one field of model(**kwargs): [err, value]
FieldResult(f, kwargs) ==
    IF f.name \in DOMAIN kwargs
      THEN LET v == kwargs[f.name] IN
           IF v.kind = "int" THEN [err |-> NoError, value |-> v]
           ELSE IF v.kind = "str" /\ v.s \in Numerals
             THEN [err |-> NoError, value |-> IntV(NumeralValue(v.s))]
           ELSE IF v.kind = "none" /\ ~f.required
             THEN [err |-> NoError, value |-> NoneV]
           ELSE IF v.kind = "none"
             THEN [err |-> FieldError(f.name, "none is not an allowed value"),
                   value |-> NoneV]
           ELSE [err |-> FieldError(f.name, "value is not a valid integer"),
                 value |-> NoneV]
    ELSE IF f.required
      THEN [err |-> FieldError(f.name, "field required"), value |-> NoneV]
    ELSE [err |-> NoError, value |-> NoneV]

\* model(**kwargs).dict(): [ok, dict, errors]; errors in field order
SchemaCall(model, kwargs) ==
    LET res == [i \in 1..Len(model.fields) |-> FieldResult(model.fields[i], kwargs)]
        bad(r) == r.err # NoError
        errs == SelectSeq(res, bad)
        names == {model.fields[i].name : i \in 1..Len(model.fields)}
        idx(k) == CHOOSE i \in 1..Len(model.fields) : model.fields[i].name = k
    IN [ok |-> errs = <<>>,
        dict |-> [k \in names |-> res[idx(k)].value],
        errors |-> [i \in 1..Len(errs) |-> errs[i].err]]

----------------------------------------------------------------------------
(* Python truth of the values given as `error`.                            *)

ErrorValues == {"None", "True", "False", "0", "''", "[]", "'x'", "1", "handler"}

\* bool(error)
Truthy(e) == e \in {"True", "'x'", "1", "handler"}
\* error is True
IsTrue(e) == e = "True"
\* isinstance(error, Callable)
IsCallable(e) == e = "handler"
\* error == True
EqTrue(e) == e \in {"True", "1"}

\* bool(model) for a schema slot
Present(m) == m.kind # "None"

----------------------------------------------------------------------------
(* DanticModelObj.__init__                                                 *)

SlotOrder == <<"header", "path", "query", "form", "body", "all">>

\* the first slot, in the order of the loop, whose check raises; 0 if none
FirstBadSlot(a) ==
    LET bad == {i \in 1..Len(SlotOrder) : a[SlotOrder[i]].kind \in {"NotModel", "NotClass"}}
    IN IF bad = {} THEN 0 ELSE CHOOSE i \in bad : \A j \in bad : i <= j

\* the constructor without its check of body against form
ConstructOutcomeNoExclusion(a) ==
    IF FirstBadSlot(a) # 0
      THEN IF a[SlotOrder[FirstBadSlot(a)]].kind = "NotClass"
             THEN [kind |-> "AttributeError", message |-> "__mro__"]
             ELSE [kind |-> "ServerError",
                   message |-> "sanic-dantic: model must inherited from Pydantic.BaseModel"]
    ELSE IF Truthy(a.error) /\ ~IsTrue(a.error) /\ ~IsCallable(a.error)
      THEN [kind |-> "ServerError",
            message |-> "sanic-dantic: the error handler must be a callable function or True"]
    ELSE [kind |-> "ok", message |-> ""]

\* the outcome of DanticModelObj(**a): [kind, message]
ConstructOutcome(a) ==
    IF Present(a.body) /\ Present(a.form)
      THEN [kind |-> "ServerError",
            message |-> "sanic-dantic: body and form cannot be used at the same time."]
    ELSE IF FirstBadSlot(a) # 0
      THEN IF a[SlotOrder[FirstBadSlot(a)]].kind = "NotClass"
             THEN [kind |-> "AttributeError", message |-> "__mro__"]
             ELSE [kind |-> "ServerError",
                   message |-> "sanic-dantic: model must inherited from Pydantic.BaseModel"]
    ELSE IF Truthy(a.error) /\ ~IsTrue(a.error) /\ ~IsCallable(a.error)
      THEN [kind |-> "ServerError",
            message |-> "sanic-dantic: the error handler must be a callable function or True"]
    ELSE [kind |-> "ok", message |-> ""]

NoBundle == [header |-> NoModel, path |-> NoModel, query |-> NoModel,
             form |-> NoModel, body |-> NoModel, all |-> NoModel, error |-> "None"]

----------------------------------------------------------------------------
(* validate: the steps of the try block.  Each step is an operator from    *)
(* the parsed_args so far to                                                *)
(*   [raised, parsed_args, errors, message, calls, body_params]            *)
(* raised: "no", "ValidationError" or "Exception"; calls: the schema       *)
(* invocations the step made, in order.                                    *)

Call(step, ok) == [step |-> step, ok |-> ok]

Skipped(pa) ==
    [raised |-> "no", parsed_args |-> pa, errors |-> <<>>, message |-> "",
     calls |-> <<>>, body_params |-> EmptyMap]

\* parsed_args.update(model(**kwargs).dict()) after the calls made before it
Validated(pa, model, kwargs, step, before) ==
    LET r == SchemaCall(model, kwargs) IN
    IF r.ok
      THEN [raised |-> "no", parsed_args |-> Update(pa, r.dict), errors |-> <<>>,
            message |-> "", calls |-> Append(before, Call(step, TRUE)),
            body_params |-> EmptyMap]
      ELSE [raised |-> "ValidationError", parsed_args |-> pa, errors |-> r.errors,
            message |-> "", calls |-> Append(before, Call(step, FALSE)),
            body_params |-> EmptyMap]

\* an exception that is no ValidationError
Failed(pa, message) ==
    [raised |-> "Exception", parsed_args |-> pa, errors |-> <<>>,
     message |-> message, calls |-> <<>>, body_params |-> EmptyMap]

\* if dmo.header: ...
HeaderResult(pa, d, req) ==
    IF Present(d.header)
      THEN Validated(pa, d.header, req.headers, "header", <<>>)
      ELSE Skipped(pa)

\* if dmo.path: ...
PathResult(pa, d, req) ==
    IF Present(d.path)
      THEN Validated(pa, d.path, req.match_info, "path", <<>>)
      ELSE Skipped(pa)

\* if dmo.query: ...
QueryResult(pa, d, req) ==
    IF Present(d.query)
      THEN Validated(pa, d.query, Flatten(req.args), "query", <<>>)
      ELSE Skipped(pa)

\* payload_json = json.loads(payload_json), any exception swallowed:
\* the parsed mapping when the text parses to one
LoadsPayload(v) ==
    IF v.kind = "str" THEN JsonLoads(v.s) ELSE Parsed("raises", EmptyMap)

\* the form step without the try/except around json.loads
FormResultNoSwallow(pa, d, req) ==
    LET flat == Flatten(req.form)
        has == "payload_json" \in DOMAIN flat
        form_data == IF has THEN Pop(flat, "payload_json") ELSE flat
        payload_json == IF has THEN LoadsPayload(flat["payload_json"])
                        ELSE Parsed("none", EmptyMap)
        first == Validated(pa, d.form, payload_json.d, "form_payload", <<>>)
    IN IF has /\ payload_json.tag = "raises"
         THEN Failed(pa, "Expecting property name enclosed in double quotes")
       ELSE IF has /\ payload_json.tag = "dict"
         THEN IF first.raised = "no"
                THEN Validated(first.parsed_args, d.form, form_data, "form", first.calls)
                ELSE first
         ELSE Validated(pa, d.form, form_data, "form", <<>>)

\* the form step with its two passes in the other order
FormResultRestFirst(pa, d, req) ==
    LET flat == Flatten(req.form)
        has == "payload_json" \in DOMAIN flat
        form_data == IF has THEN Pop(flat, "payload_json") ELSE flat
        payload_json == IF has THEN LoadsPayload(flat["payload_json"])
                        ELSE Parsed("raises", EmptyMap)
        rest == Validated(pa, d.form, form_data, "form", <<>>)
    IN IF has /\ payload_json.tag = "dict" /\ rest.raised = "no"
         THEN Validated(rest.parsed_args, d.form, payload_json.d, "form_payload",
                        rest.calls)
         ELSE rest

\* the body of `if dmo.form:`
FormResult(pa, d, req) ==
    LET flat == Flatten(req.form)
        has == "payload_json" \in DOMAIN flat
        form_data == IF has THEN Pop(flat, "payload_json") ELSE flat
        payload_json == IF has THEN LoadsPayload(flat["payload_json"])
                        ELSE Parsed("raises", EmptyMap)
        first == Validated(pa, d.form, payload_json.d, "form_payload", <<>>)
    IN IF has /\ payload_json.tag = "dict"
         THEN IF first.raised = "no"
                THEN Validated(first.parsed_args, d.form, form_data, "form", first.calls)
                ELSE first
         ELSE Validated(pa, d.form, form_data, "form", <<>>)

\* str(e) of the exception dmo.body(**request.json) raises without a mapping
JsonFailure(json) ==
    CASE json.tag = "raises" -> "Failed when parsing body as json"
      [] json.tag = "none" -> "argument after ** must be a mapping, not NoneType"
      [] json.tag = "list" -> "argument after ** must be a mapping, not list"
      [] OTHER -> "argument after ** must be a mapping, not int"

\* the body of `elif dmo.body:`
BodyResult(pa, d, req) ==
    IF req.json.tag = "dict"
      THEN Validated(pa, d.body, req.json.d, "body", <<>>)
      ELSE Failed(pa, JsonFailure(req.json))

\* if dmo.form: ... elif dmo.body: ...
FormBodyResult(pa, d, req) ==
    IF Present(d.form) THEN FormResult(pa, d, req)
    ELSE IF Present(d.body) THEN BodyResult(pa, d, req)
    ELSE Skipped(pa)

\* body_params where the keys of payload_json do not replace the form fields
BodyParamsFieldsWin(req) ==
    IF req.json.tag = "raises"
      THEN LET flat == Flatten(req.form) IN
           IF "payload_json" \in DOMAIN flat
             THEN LET payload_json == LoadsPayload(flat["payload_json"])
                      rest == Pop(flat, "payload_json")
                  IN IF payload_json.tag = "dict"
                       THEN [k \in (DOMAIN rest) \cup (DOMAIN payload_json.d) |->
                               IF k \in DOMAIN rest THEN rest[k] ELSE payload_json.d[k]]
                       ELSE rest
             ELSE flat
    ELSE IF req.json.tag = "dict" THEN req.json.d
    ELSE EmptyMap

\* body_params of the `all` step
BodyParams(req) ==
    IF req.json.tag = "raises"
      THEN LET flat == Flatten(req.form) IN
           IF "payload_json" \in DOMAIN flat
             THEN LET payload_json == LoadsPayload(flat["payload_json"])
                      rest == Pop(flat, "payload_json")
                  IN IF payload_json.tag = "dict"
                       THEN Update(rest, payload_json.d)
                       ELSE rest
             ELSE flat
    ELSE IF req.json.tag = "dict" THEN req.json.d
    ELSE EmptyMap

\* params of the `all` step: headers, match_info, query_params, body_params
AllParams(req) ==
    Update(Update(Update(req.headers, req.match_info), Flatten(req.args)),
           BodyParams(req))

\* if dmo.all: ...
AllResult(pa, d, req) ==
    IF Present(d.all)
      THEN [Validated(pa, d.all, AllParams(req), "all", <<>>)
              EXCEPT !.body_params = BodyParams(req)]
      ELSE Skipped(pa)

----------------------------------------------------------------------------
(* validate: the except clauses.                                           *)

Pending == [kind |-> "pending", value |-> EmptyMap, errors |-> <<>>, message |-> ""]

\* f'{error_msg.get("loc")[0]} {error_msg.get("msg")}' of e.errors()[0]
ErrorMessage(errors) == errors[1].loc[1] \o " " \o errors[1].msg

\* the except clause without `if dmo.error == True: raise e`
ValidationOutcomeNoReraise(errors, d) ==
    IF Truthy(d.error)
      THEN IF IsCallable(d.error)
             THEN [kind |-> "handled", value |-> EmptyMap, errors |-> errors,
                   message |-> ""]
             ELSE [kind |-> "TypeError", value |-> EmptyMap, errors |-> <<>>,
                   message |-> "object is not callable"]
    ELSE [kind |-> "InvalidUsage", value |-> EmptyMap, errors |-> <<>>,
          message |-> errors[1].loc[1] \o " " \o errors[1].msg]

\* except ValidationError as e: [kind, value, errors, message]
\*   "ValidationError": e raised again; "handled": dmo.error(request, e) returned;
\*   "InvalidUsage": raised with the message; "TypeError": dmo.error not callable
ValidationOutcome(errors, d) ==
    IF EqTrue(d.error)
      THEN [kind |-> "ValidationError", value |-> EmptyMap, errors |-> errors,
            message |-> ""]
    ELSE IF Truthy(d.error)
      THEN IF IsCallable(d.error)
             THEN [kind |-> "handled", value |-> EmptyMap, errors |-> errors,
                   message |-> ""]
             ELSE [kind |-> "TypeError", value |-> EmptyMap, errors |-> <<>>,
                   message |-> "object is not callable"]
    ELSE [kind |-> "InvalidUsage", value |-> EmptyMap, errors |-> <<>>,
          message |-> ErrorMessage(errors)]

\* the calls of dmo.error the except clause makes: each (request, e)
HandlerInvocations(errors, d, req) ==
    IF ~EqTrue(d.error) /\ Truthy(d.error) /\ IsCallable(d.error)
      THEN <<[request |-> req, error |-> errors]>> ELSE <<>>

\* raise ServerError() without the message of e
ExceptionOutcomeNoMessage(message) ==
    [kind |-> "ServerError", value |-> EmptyMap, errors |-> <<>>, message |-> ""]

\* except Exception as e: raise ServerError(str(e))
ExceptionOutcome(message) ==
    [kind |-> "ServerError", value |-> EmptyMap, errors |-> <<>>, message |-> message]

\* request.ctx.params = parsed_args; return parsed_args
ReturnOutcome(pa) ==
    [kind |-> "returned", value |-> pa, errors |-> <<>>, message |-> ""]

\* request.ctx.params = ParsedArgsObj(): a fresh object, not parsed_args
CtxAfterReturnFresh(pa) == [set |-> TRUE, params |-> EmptyMap]

Unset == [set |-> FALSE, params |-> EmptyMap]
CtxAfterReturn(pa) == [set |-> TRUE, params |-> pa]

----------------------------------------------------------------------------
(* Actions *)

\* dmo = DanticModelObj(**ctor_args)
Construct ==
    /\ pc = "construct"
    /\ ctor_outcome' = ConstructOutcome(ctor_args).kind
    /\ IF ConstructOutcome(ctor_args).kind = "ok"
         THEN dmo' = ctor_args /\ pc' = "header"
         ELSE dmo' = dmo /\ pc' = "ctor_failed"
    /\ UNCHANGED <<ctor_args, request, parsed_args, body_params, calls,
                   handler_calls, outcome, ctx>>

\* one step of the try block, with the except clause it may enter
Step(here, next, r) ==
    /\ pc = here
    /\ calls' = calls \o r.calls
    /\ body_params' = IF here = "all" THEN r.body_params ELSE body_params
    /\ CASE r.raised = "no" ->
              /\ pc' = next
              /\ parsed_args' = r.parsed_args
              /\ UNCHANGED <<outcome, handler_calls>>
         [] r.raised = "ValidationError" ->
              /\ pc' = "done"
              /\ outcome' = ValidationOutcome(r.errors, dmo)
              /\ handler_calls' = handler_calls \o HandlerInvocations(r.errors, dmo, request)
              /\ UNCHANGED parsed_args
         [] OTHER ->
              /\ pc' = "done"
              /\ outcome' = ExceptionOutcome(r.message)
              /\ UNCHANGED <<parsed_args, handler_calls>>
    /\ UNCHANGED <<ctor_args, ctor_outcome, dmo, request, ctx>>

HeaderStep == Step("header", "path", HeaderResult(parsed_args, dmo, request))
PathStep == Step("path", "query", PathResult(parsed_args, dmo, request))
QueryStep == Step("query", "form_or_body", QueryResult(parsed_args, dmo, request))
FormBodyStep == Step("form_or_body", "all", FormBodyResult(parsed_args, dmo, request))
AllStep == Step("all", "return", AllResult(parsed_args, dmo, request))

\* request.ctx.params = parsed_args; return parsed_args
Return ==
    /\ pc = "return"
    /\ ctx' = CtxAfterReturn(parsed_args)
    /\ outcome' = ReturnOutcome(parsed_args)
    /\ pc' = "done"
    /\ UNCHANGED <<ctor_args, ctor_outcome, dmo, request, parsed_args, body_params,
                   calls, handler_calls>>

Next ==
    \/ Construct
    \/ HeaderStep
    \/ PathStep
    \/ QueryStep
    \/ FormBodyStep
    \/ AllStep
    \/ Return

----------------------------------------------------------------------------
(* Inputs *)

Nums == {StrV(ToString(n)) : n \in 1..MaxVal}
\* what a header, a path parameter, a query or a form field may hold
Raw == Nums \cup {StrV("abc")}

\* the mappings with keys among `keys` and values in `vals`
Maps(keys, vals) == UNION {[D -> vals] : D \in SUBSET keys}

\* the values of one key of a multi-map: one value, or a repeated key
Multi(vals) == {<<v>> : v \in vals} \cup {<<StrV(ToString(1)), StrV(ToString(MaxVal))>>}

\* request.json: it raises, or returns None, a list, a scalar or a mapping
Bodies(keys) ==
    {Parsed(tag, EmptyMap) : tag \in {"raises", "none", "list", "scalar"}}
      \cup {Parsed("dict", m) : m \in Maps(keys, {IntV(n) : n \in 1..MaxVal})}

\* the texts a payload_json field may hold
PayloadTexts(keys) ==
    {"{not valid json", ToString(1), "null", "[1]"}
      \cup {JsonDumps(obj) : obj \in Maps(keys, {IntV(n) : n \in 1..MaxVal})}

\* form multi-maps: fields over `keys` and, possibly, one payload_json field
Forms(keys, vals, payloads) ==
    LET fields == Maps(keys, vals) IN
    fields \cup
      {Update(f, [k \in {"payload_json"} |-> pl]) : f \in fields, pl \in payloads}

\* a field submitted once with each of the texts
Once(texts) == {<<StrV(text)>> : text \in texts}

ModelA == Model(<<Field("a", TRUE)>>)
ModelAOpt == Model(<<Field("a", FALSE)>>)
ModelAB == Model(<<Field("a", TRUE), Field("b", TRUE)>>)
ModelABOpt == Model(<<Field("a", FALSE), Field("b", FALSE)>>)
ModelBA == Model(<<Field("b", TRUE), Field("a", TRUE)>>)

\* the sections validate reads for a bundle; a section it never reads is
\* left empty in the request
ReadsHeaders(b) == Present(b.header) \/ Present(b.all)
ReadsPath(b) == Present(b.path) \/ Present(b.all)
ReadsArgs(b) == Present(b.query) \/ Present(b.all)
ReadsJson(b) == (~Present(b.form) /\ Present(b.body)) \/ Present(b.all)
ReadsForm(b, json) == Present(b.form) \/ (Present(b.all) /\ json.tag = "raises")

\* H, P, Q, F, J: the headers, path parameters, query multi-maps, form
\* multi-maps and JSON bodies of the requests; FJ: the form multi-maps of a
\* request whose body parses as JSON and whose bundle has no form schema
InitOver(Bundles, H, P, Q, F, J, FJ) ==
    /\ pc = "construct"
    /\ ctor_args \in Bundles
    /\ ctor_outcome = "pending"
    /\ dmo = NoBundle
    /\ LET ok == ConstructOutcome(ctor_args).kind = "ok" IN
       \E h \in (IF ok /\ ReadsHeaders(ctor_args) THEN H ELSE {EmptyMap}),
          p \in (IF ok /\ ReadsPath(ctor_args) THEN P ELSE {EmptyMap}),
          q \in (IF ok /\ ReadsArgs(ctor_args) THEN Q ELSE {EmptyMap}),
          j \in (IF ok /\ ReadsJson(ctor_args) THEN J ELSE {Parsed("none", EmptyMap)}) :
         \E f \in (IF ok /\ ReadsForm(ctor_args, j) THEN F
                   ELSE IF ok /\ Present(ctor_args.all) THEN FJ ELSE {EmptyMap}) :
           request = [headers |-> h, match_info |-> p, args |-> q, form |-> f, json |-> j]
    /\ parsed_args = EmptyMap
    /\ body_params = EmptyMap
    /\ calls = <<>>
    /\ handler_calls = <<>>
    /\ outcome = Pending
    /\ ctx = Unset

Bundle(h, p, q, f, b, a, e) ==
    [header |-> h, path |-> p, query |-> q, form |-> f, body |-> b, all |-> a,
     error |-> e]

\* bundles of required fields: every step can succeed and can fail
Bundles ==
    {Bundle(h, p, q, fb[1], fb[2], a, e) :
        h \in {NoModel, ModelA}, p \in {NoModel, ModelA}, q \in {NoModel, ModelA},
        fb \in {<<NoModel, NoModel>>, <<ModelA, NoModel>>, <<NoModel, ModelA>>},
        a \in {NoModel, ModelBA}, e \in {"None", "True", "False", "handler"}}

\* a value the schemas accept and one they reject
One == StrV(ToString(1))
Abc == StrV("abc")
OneObject == [k \in {"a"} |-> IntV(1)]
BothObject == [k \in {"a", "b"} |-> IntV(1)]

Init ==
    InitOver(Bundles,
             Maps({"a"}, {One, Abc}), Maps({"a"}, {One}),
             Maps({"a"}, Multi({One})),
             Forms({"a"}, Multi({One}),
                   Once({"{not valid json", JsonDumps(OneObject), JsonDumps(EmptyMap)})),
             {Parsed(tag, EmptyMap) : tag \in {"raises", "list", "dict"}}
               \cup {Parsed("dict", OneObject), Parsed("dict", BothObject)},
             {EmptyMap})

Spec == Init /\ [][Next]_vars

----------------------------------------------------------------------------
(* What the claims speak of: the steps a bundle and a request call for,    *)
(* stated from the bundle and the request alone.                           *)

StepNames == <<"header", "path", "query", "form_payload", "form", "body", "all">>
Rank(step) == CHOOSE i \in 1..Len(StepNames) : StepNames[i] = step

PayloadOf(req) ==
    IF "payload_json" \in DOMAIN req.form
         /\ Len(req.form["payload_json"]) = 1
      THEN JsonLoads(req.form["payload_json"][1].s)
      ELSE Parsed("raises", EmptyMap)

\* the step is one validate takes when nothing before it fails
Applicable(step, d, req) ==
    CASE step = "header" -> Present(d.header)
      [] step = "path" -> Present(d.path)
      [] step = "query" -> Present(d.query)
      [] step = "form_payload" -> Present(d.form) /\ PayloadOf(req).tag = "dict"
      [] step = "form" -> Present(d.form)
      [] step = "body" -> ~Present(d.form) /\ Present(d.body)
      [] OTHER -> Present(d.all)

StepModel(step, d) ==
    CASE step = "header" -> d.header
      [] step = "path" -> d.path
      [] step = "query" -> d.query
      [] step \in {"form_payload", "form"} -> d.form
      [] step = "body" -> d.body
      [] OTHER -> d.all

StepInput(step, req) ==
    CASE step = "header" -> req.headers
      [] step = "path" -> req.match_info
      [] step = "query" -> Flatten(req.args)
      [] step = "form_payload" -> PayloadOf(req).d
      [] step = "form" ->
           [k \in (DOMAIN req.form) \ {"payload_json"} |-> Flatten(req.form)[k]]
      [] step = "body" -> req.json.d
      [] OTHER -> AllParams(req)

\* the step cannot even call its schema: the JSON body is no mapping
Breaks(step, d, req) ==
    Applicable(step, d, req) /\ step = "body" /\ req.json.tag # "dict"

\* the schema of the step rejects its input
Rejects(step, d, req) ==
    /\ Applicable(step, d, req)
    /\ ~Breaks(step, d, req)
    /\ ~SchemaCall(StepModel(step, d), StepInput(step, req)).ok

StepErrors(step, d, req) == SchemaCall(StepModel(step, d), StepInput(step, req)).errors

\* the rank of the earliest step that rejects or breaks; past the last rank if none
StopRank(d, req) ==
    LET stops == {i \in 1..Len(StepNames) :
                    Rejects(StepNames[i], d, req) \/ Breaks(StepNames[i], d, req)}
    IN IF stops = {} THEN Len(StepNames) + 1
       ELSE CHOOSE i \in stops : \A j \in stops : i <= j

\* the schema invocations a complete run makes
ExpectedCalls(d, req) ==
    LET stop == StopRank(d, req)
        called(step) == /\ Rank(step) <= stop
                        /\ Applicable(step, d, req)
                        /\ ~Breaks(step, d, req)
        steps == SelectSeq(StepNames, called)
    IN [i \in 1..Len(steps) |-> Call(steps[i], ~Rejects(steps[i], d, req))]

Finished == pc = "done"
ValidationFailed == Finished /\ calls # <<>> /\ ~calls[Len(calls)].ok
FailedStep == calls[Len(calls)].step

----------------------------------------------------------------------------
(* C5: when a step hits a schema-validation failure the `error` slot alone *)
(* decides the outcome: true, the validation error is raised unchanged; a  *)
(* callable, it is called once with (request, error) and its result is     *)
(* returned; otherwise InvalidUsage is raised with the message             *)
(* "<first-error-location> <first-error-message>".                         *)
C5_ErrorSlotDecides ==
    ValidationFailed =>
      LET e == StepErrors(FailedStep, dmo, request) IN
      /\ dmo.error = "True" =>
           /\ outcome.kind = "ValidationError" /\ outcome.errors = e
           /\ handler_calls = <<>>
      /\ dmo.error = "handler" =>
           /\ outcome.kind = "handled" /\ outcome.errors = e
           /\ handler_calls = <<[request |-> request, error |-> e]>>
      /\ dmo.error \notin {"True", "handler"} =>
           /\ outcome.kind = "InvalidUsage"
           /\ outcome.message = e[1].loc[1] \o " " \o e[1].msg
           /\ handler_calls = <<>>

\* each of the three outcomes occurs, the last with two field errors reported
C5_Witness ==
    /\ ValidationFailed
    /\ outcome.kind = "InvalidUsage"
    /\ Len(StepErrors(FailedStep, dmo, request)) = 2
    /\ outcome.message = "b field required"

----------------------------------------------------------------------------
(* C7: a failure that is no schema-validation failure (a body schema given *)
(* a JSON body that does not parse or is no mapping) ends in ServerError   *)
(* with the failure's message, whatever the `error` slot holds, and the    *)
(* custom handler is not called; nothing else ends in ServerError.         *)
C7_ServerFault ==
    Finished =>
      /\ outcome.kind = "ServerError" <=>
           /\ Breaks("body", dmo, request)
           /\ \A s \in {"header", "path", "query"} : ~Rejects(s, dmo, request)
      /\ outcome.kind = "ServerError" =>
           /\ outcome.message = JsonFailure(request.json)
           /\ outcome.message # ""
           /\ handler_calls = <<>>

C7_Witness ==
    /\ Finished
    /\ outcome.kind = "ServerError"
    /\ dmo.error = "handler"
    /\ request.json.tag = "list"
    /\ calls # <<>>

----------------------------------------------------------------------------
(* C9: the steps run in the order header, path, query, form (payload_json  *)
(* pass, then remaining fields) or body, all; the run stops at the first   *)
(* step whose schema rejects its input, whose error is the one raised or   *)
(* handed to the handler; no later schema is called; the handler is called *)
(* at most once.                                                           *)
C9_OrderAndFirstFailure ==
    /\ \A i, j \in 1..Len(calls) : i < j => Rank(calls[i].step) < Rank(calls[j].step)
    /\ \A i \in 1..Len(calls) : i < Len(calls) => calls[i].ok
    /\ (calls # <<>> /\ ~calls[Len(calls)].ok) => Finished
    /\ Len(handler_calls) <= 1
    /\ Finished =>
         /\ calls = ExpectedCalls(dmo, request)
         /\ ValidationFailed =>
              /\ Rank(FailedStep) = StopRank(dmo, request)
              /\ outcome.kind \in {"ValidationError", "handled"} =>
                   outcome.errors = StepErrors(FailedStep, dmo, request)
              /\ outcome.kind = "handled" =>
                   /\ Len(handler_calls) = 1
                   /\ handler_calls[1].error = StepErrors(FailedStep, dmo, request)

\* the header step fails although the query and the `all` step would fail too
C9_Witness ==
    /\ ValidationFailed
    /\ FailedStep = "header"
    /\ Present(dmo.query) /\ ~SchemaCall(dmo.query, Flatten(request.args)).ok
    /\ Present(dmo.all) /\ ~SchemaCall(dmo.all, AllParams(request)).ok
    /\ outcome.kind = "handled"
    /\ Len(calls) = 1

----------------------------------------------------------------------------
(* C10: request.ctx.params is written exactly when validate completes      *)
(* successfully, with the merged object it returns; on every other outcome *)
(* it is left as it was.                                                   *)
C10_ContextWrittenOnSuccessOnly ==
    /\ ctx.set <=> (Finished /\ outcome.kind = "returned")
    /\ ctx.set => (ctx.params = outcome.value /\ ctx.params = parsed_args)
    /\ ~ctx.set => ctx = Unset

\* a successful run that merged something
C10_Witness ==
    /\ Finished
    /\ outcome.kind = "returned"
    /\ ctx.set
    /\ ctx.params # EmptyMap
    /\ Len(calls) > 1

\* a failure after sections were merged: the partial object is not attached
C10_WitnessFailure ==
    /\ ValidationFailed
    /\ parsed_args # EmptyMap
    /\ ctx = Unset

----------------------------------------------------------------------------
(* The constructor over every kind of argument.                            *)

CtorBundles ==
    {Bundle(h, p, q, f, b, a, e) :
        h \in {NoModel, ModelA, NotModel, NotClass}, p \in {NoModel, ModelA},
        q \in {NoModel, ModelA},
        f \in {NoModel, ModelA, NotModel, NotClass},
        b \in {NoModel, ModelA, NotModel, NotClass},
        a \in {NoModel, ModelA, NotModel}, e \in ErrorValues}

InitCtor ==
    InitOver(CtorBundles,
             {EmptyMap, [k \in {"a"} |-> One]}, {[k \in {"a"} |-> One]},
             {[k \in {"a"} |-> <<One>>]},
             {EmptyMap, [k \in {"a"} |-> <<One>>]},
             {Parsed("raises", EmptyMap), Parsed("dict", OneObject)},
             {EmptyMap})

SpecCtor == InitCtor /\ [][Next]_vars

Constructed == ctor_outcome = "ok"

----------------------------------------------------------------------------
(* C4: an `error` that is supplied and is neither True nor a callable      *)
(* makes the construction fail; no bundle is constructed holding one.      *)
C4_NoOtherErrorConstructed ==
    Constructed => dmo.error \in {"None", "True", "handler"}

----------------------------------------------------------------------------
(* C8: with both `form` and `body` supplied the construction fails with    *)
(* ServerError; a constructed bundle holds at most one of them, and        *)
(* validate never runs both the form step and the body step.               *)
C8_FormBodyExclusive ==
    /\ (pc # "construct" /\ Present(ctor_args.form) /\ Present(ctor_args.body)) =>
         (ctor_outcome = "ServerError" /\ pc = "ctor_failed" /\ dmo = NoBundle)
    /\ Constructed =>
         (dmo = ctor_args /\ ~(Present(dmo.form) /\ Present(dmo.body)))
    /\ ~\E i, j \in 1..Len(calls) :
          calls[i].step \in {"form_payload", "form"} /\ calls[j].step = "body"

C8_Witness ==
    /\ pc = "ctor_failed"
    /\ ctor_args.form = ModelA /\ ctor_args.body = ModelA
    /\ ctor_args.error = "None"
    /\ ctor_outcome = "ServerError"

----------------------------------------------------------------------------
(* The merge of the sections, without an `all` schema.                     *)

MergeBundles ==
    {Bundle(h, p, q, fb[1], fb[2], NoModel, "None") :
        h \in {NoModel, ModelAOpt, ModelABOpt}, p \in {NoModel, ModelAOpt},
        q \in {NoModel, ModelAOpt, ModelABOpt},
        fb \in {<<NoModel, NoModel>>, <<ModelAOpt, NoModel>>, <<ModelABOpt, NoModel>>,
                <<NoModel, ModelAOpt>>, <<NoModel, ModelABOpt>>}}

InitMerge ==
    InitOver(MergeBundles,
             Maps({"a"}, Raw), Maps({"a"}, Raw), Maps({"a"}, Multi(Nums)),
             Forms({"a"}, Multi(Nums), Once({"{not valid json"} \cup
                      {JsonDumps(obj) : obj \in Maps({"a"}, {IntV(n) : n \in 1..MaxVal})})),
             Bodies({"a"}),
             {EmptyMap})

SpecMerge == InitMerge /\ [][Next]_vars

\* the sections in rising precedence; the form section is its last pass
Sections == <<"header", "path", "query", "form", "body">>
Precedence(section) == CHOOSE i \in 1..Len(Sections) : Sections[i] = section

\* what a section that validates successfully produces
Produced(section, d, req) ==
    SchemaCall(StepModel(section, d), StepInput(section, req)).dict

Producers(k, d, req) ==
    {s \in {Sections[i] : i \in 1..Len(Sections)} :
        Applicable(s, d, req) /\ k \in DOMAIN Produced(s, d, req)}

Highest(k, d, req) ==
    CHOOSE s \in Producers(k, d, req) :
        \A o \in Producers(k, d, req) : Precedence(o) <= Precedence(s)

(* C1: without an `all` schema, a key produced by more than one validated  *)
(* section has in the merged result the value of the section of highest    *)
(* precedence, body/form > query > path > header.                          *)
C1_Precedence ==
    (Finished /\ outcome.kind = "returned" /\ ~Present(dmo.all)) =>
      /\ \A k \in DOMAIN outcome.value : Producers(k, dmo, request) # {}
      /\ \A k \in {"a", "b"} :
           Producers(k, dmo, request) # {} =>
             /\ k \in DOMAIN outcome.value
             /\ outcome.value[k] = Produced(Highest(k, dmo, request), dmo, request)[k]

\* header, path, query and body all produce a; the body's value differs from
\* the query's, the query's from the path's
C1_Witness ==
    /\ Finished /\ outcome.kind = "returned"
    /\ Producers("a", dmo, request) = {"header", "path", "query", "body"}
    /\ Produced("body", dmo, request)["a"] # Produced("query", dmo, request)["a"]
    /\ Produced("query", dmo, request)["a"] # Produced("path", dmo, request)["a"]
    /\ Produced("path", dmo, request)["a"] # Produced("header", dmo, request)["a"]
    /\ outcome.value["a"] = Produced("body", dmo, request)["a"]

----------------------------------------------------------------------------
(* The form step.                                                          *)

FormBundles ==
    {Bundle(NoModel, NoModel, q, f, NoModel, NoModel, e) :
        q \in {NoModel, ModelAOpt}, f \in {ModelABOpt, ModelAB, ModelAOpt},
        e \in {"None", "handler"}}

InitForm ==
    InitOver(FormBundles,
             {EmptyMap}, {EmptyMap}, Maps({"a"}, {<<v>> : v \in Nums}),
             Forms({"a", "b"}, {<<v>> : v \in Raw},
                   Once(PayloadTexts({"a", "b"})) \cup {<<One, One>>}),
             {Parsed("none", EmptyMap)},
             {EmptyMap})

SpecForm == InitForm /\ [][Next]_vars

(* C2: the form fields payload_json = '{"a": 1}' and b = 2, with a form    *)
(* schema that accepts a and b: validate succeeds and the merged result    *)
(* holds a = 1 and b = 2.                                                  *)
C2_PayloadAndFieldsMerged ==
    (/\ Finished
     /\ dmo.form \in {ModelABOpt, ModelAB}
     /\ request.form = [k \in {"payload_json", "b"} |->
                          IF k = "b" THEN <<StrV("2")>> ELSE <<StrV("{\"a\": 1}")>>])
      => /\ outcome.kind = "returned"
         /\ outcome.value["a"] = IntV(1)
         /\ outcome.value["b"] = IntV(2)

\* the remaining form fields, payload_json left out
Remaining(req) ==
    [k \in (DOMAIN req.form) \ {"payload_json"} |->
        IF Len(req.form[k]) = 1 THEN req.form[k][1] ELSE ListV(req.form[k])]

BadPayload(req) ==
    /\ "payload_json" \in DOMAIN req.form
    /\ PayloadOf(req).tag = "raises"

(* C6: with a form schema, a payload_json field that is no valid JSON      *)
(* never makes validate fail: the field is dropped, nothing of it is       *)
(* merged, and the remaining fields are validated and merged as if         *)
(* payload_json had not been submitted.                                    *)
C6_BadPayloadIgnored ==
    (Finished /\ Present(dmo.form) /\ BadPayload(request)
       /\ ~Rejects("query", dmo, request)) =>
      LET before == IF Present(dmo.query) THEN Produced("query", dmo, request)
                    ELSE EmptyMap
          rest == SchemaCall(dmo.form, Remaining(request))
      IN /\ outcome.kind # "ServerError"
         /\ \A i \in 1..Len(calls) : calls[i].step # "form_payload"
         /\ calls[Len(calls)] = Call("form", rest.ok)
         /\ rest.ok =>
              /\ outcome.kind = "returned"
              /\ DOMAIN outcome.value = (DOMAIN before) \cup (DOMAIN rest.dict)
              /\ \A k \in DOMAIN outcome.value :
                   outcome.value[k] = IF k \in DOMAIN rest.dict THEN rest.dict[k]
                                      ELSE before[k]
         /\ ~rest.ok =>
              /\ outcome.kind \in {"InvalidUsage", "handled"}
              /\ outcome.kind = "handled" => outcome.errors = rest.errors
              /\ outcome.kind = "InvalidUsage" =>
                   outcome.message = rest.errors[1].loc[1] \o " " \o rest.errors[1].msg

\* '{not valid json' beside a field b: the run succeeds with b merged
C6_Witness ==
    /\ Finished
    /\ request.form = [k \in {"payload_json", "b"} |->
                         IF k = "b" THEN <<StrV("2")>> ELSE <<StrV("{not valid json")>>]
    /\ dmo.form = ModelABOpt
    /\ outcome.kind = "returned"
    /\ outcome.value["b"] = IntV(2)
    /\ outcome.value["a"] = NoneV

----------------------------------------------------------------------------
(* The `all` step.                                                         *)

AllBundles ==
    {Bundle(NoModel, NoModel, NoModel, NoModel, NoModel, a, e) :
        a \in {ModelABOpt, ModelAB}, e \in {"None", "handler"}}

AllForms ==
    Forms({"a", "b"}, {<<v>> : v \in Nums}, Once(PayloadTexts({"a", "b"})))

InitAll ==
    InitOver(AllBundles,
             Maps({"a"}, {One}), {EmptyMap}, Maps({"b"}, {<<One>>}),
             AllForms, Bodies({"a", "b"}), AllForms)

SpecAll == InitAll /\ [][Next]_vars

AfterAll == pc \in {"return", "done"} /\ calls # <<>> /\ calls[Len(calls)].step = "all"

\* the flattened form mapping, payload_json removed and, when it parses to a
\* mapping, its keys spliced in
FormMapping(req) ==
    LET rest == Remaining(req)
        payload == PayloadOf(req)
        spliced == IF payload.tag = "dict" THEN DOMAIN payload.d ELSE {}
    IN [k \in (DOMAIN rest) \cup spliced |->
          IF k \in spliced THEN payload.d[k] ELSE rest[k]]

(* C3, as claimed: body_params is the parsed JSON body when it parses to a *)
(* mapping, and in every other case the flattened form mapping.            *)
C3_FormMappingUnlessMapping ==
    AfterAll =>
      body_params = IF request.json.tag = "dict" THEN request.json.d
                    ELSE FormMapping(request)

(* C3, amended: body_params is the parsed JSON body when it parses to a    *)
(* mapping, the flattened form mapping (payload_json removed, its keys     *)
(* spliced in when it parses to a mapping) when the body fails to parse,   *)
(* and the empty mapping when the body parses to anything else.            *)
C3_BodyParams ==
    AfterAll =>
      body_params = CASE request.json.tag = "dict" -> request.json.d
                      [] request.json.tag = "raises" -> FormMapping(request)
                      [] OTHER -> EmptyMap

\* a body that parses to a list, beside form fields: body_params is empty
C3_Witness ==
    /\ AfterAll
    /\ request.json.tag = "list"
    /\ "payload_json" \in DOMAIN request.form
    /\ FormMapping(request) # EmptyMap
    /\ body_params = EmptyMap

\* a body that fails to parse: the keys of payload_json replace the fields
C3_WitnessSplice ==
    /\ AfterAll
    /\ request.json.tag = "raises"
    /\ PayloadOf(request).tag = "dict"
    /\ "a" \in DOMAIN Remaining(request) /\ "a" \in DOMAIN PayloadOf(request).d
    /\ Remaining(request)["a"].s # ToString(PayloadOf(request).d["a"].n)
    /\ body_params["a"] = PayloadOf(request).d["a"]

====
